---- MODULE Spec2Model ----
(***************************************************************************)
(* Model of _examples/sequential-producer/producer.go: the confirm-gated   *)
(* publish loop (publish), the interrupt listener (SetupCloseHandler) and  *)
(* the broker that resolves deferred confirmations.                        *)
(*                                                                         *)
(* Time is discrete; one tick is half of the inter-publish delay, so that  *)
(* time.Second (producer.go:111) is Delay = 2 ticks.  The Go scheduler     *)
(* gives no real-time guarantee, so Tick is never forced to wait for a     *)
(* goroutine: `lag` records whether time ever passed while some step of    *)
(* the program or of the broker was ready to run.                          *)
(***************************************************************************)
EXTENDS Integers, Sequences, FiniteSets, TLC

\* ---------------------------------------------------------------- bounds
MaxTime == 6

\* ------------------------------------------------------ program constants
Delay == 2
SigBufCap == 2
FatalStatus == 1
OkStatus == 0

VARIABLES
    continuous,   \* flag -continuous (producer.go:24)
    pc,           \* position of the main goroutine inside main/publish
    conn,         \* connection: "none" | "open" | "closed"
    channel,      \* channel:    "none" | "open" | "closed"
    handles,      \* deferred confirmations, by delivery tag: "pending" | "ack" | "nack"
    done,         \* TRUE once the done channel is closed
    sigbuf,       \* number of OS signals buffered in c (producer.go:121)
    lpc,          \* position of the listener goroutine
    timer,        \* instant at which the channel of time.After becomes ready
    exitCode,     \* process exit status, meaningful when pc = "exited"
    now,          \* current time, in ticks
    calls,        \* broker operations invoked so far, in order, with their outcome
    closes,       \* resources closed so far, in order
    subAt,        \* instants of the successful submissions
    sigAt,        \* instant at which done was closed (meaningful when done)
    waitAt,       \* instant at which the last select was entered
    decidedAt,    \* instant at which the last select took a branch
    lag           \* TRUE once time has passed while a step was ready

vars == <<continuous, pc, conn, channel, handles, done, sigbuf, lpc, timer,
          exitCode, now, calls, closes, subAt, sigAt, waitAt, decidedAt, lag>>

SetupSteps == <<"Dial", "Channel", "ExchangeDeclare", "Confirm">>

Outcomes == {"ack", "nack"}

Running == pc # "exited"

Last(s) == s[Len(s)]

Min(a, b) == IF a < b THEN a ELSE b

Pending == {i \in DOMAIN handles : handles[i] = "pending"}

\* Indices of the calls of operation op.
CallsOf(op) == {i \in DOMAIN calls : calls[i].op = op}

\* The run ended in ErrLog.Fatalf.
Fatal == pc = "exited" /\ exitCode = FatalStatus

\* The loop was left by return or break.
LoopLeft == pc \in {"return", "main"} \/ (pc = "exited" /\ exitCode = OkStatus)

\* ------------------------------------------------------------ control flow
NextStepChecksShutdown(step) ==
    CASE step = "Dial" -> "Channel"
      [] step = "Channel" -> "ExchangeDeclare"
      [] step = "ExchangeDeclare" -> "Confirm"
      [] step = "Confirm" -> IF done THEN "return" ELSE "publish"

\* Position following a setup step: the next step, or the loop.
NextStep(step) ==
    CASE step = "Dial" -> "Channel"
      [] step = "Channel" -> "ExchangeDeclare"
      [] step = "ExchangeDeclare" -> "Confirm"
      [] step = "Confirm" -> "publish"

AfterSetupIgnoringError(step, ok) == NextStep(step)

\* if err != nil { ErrLog.Fatalf(...) }: the process exits at once.
AfterSetup(step, ok) == IF ok THEN NextStep(step) ELSE "exited"

AfterPublishIgnoringError(ok) == "wait"

\* if err != nil { ErrLog.Fatalf("error in publish: %s", err) }
AfterPublish(ok) == IF ok THEN "wait" ELSE "exited"

WaitReturnsAtOnce(h) == TRUE

WaitReturnsOnShutdown(h) == h # "pending" \/ done

\* dConfirmation.Wait() returns once the confirmation is resolved.
WaitReturns(h) == h # "pending"

AfterWaitNackFatal(h) == IF h = "nack" THEN "exited" ELSE "decide"

\* After Wait() the delivery tag is logged; the outcome is not inspected.
AfterWait(h) == "decide"

AfterConfirmAlwaysLoops(cont) == "select"

\* if *continuous { select ... } else { break }
AfterConfirm(cont) == IF cont THEN "select" ELSE "return"

TimerDeadlineZero(t) == t

TimerDeadlineDouble(t) == t + 2 * Delay

\* time.After(time.Second), evaluated when the select statement is entered.
TimerDeadline(t) == t + Delay

SelectReadyTimerOnly(closed, elapsed) == {"timer"}

SelectReadyIgnoringDone(closed, elapsed) == IF elapsed THEN {"timer"} ELSE {}

\* The cases of the select that can proceed; Go picks one of them at random.
SelectReady(closed, elapsed) ==
    (IF closed THEN {"done"} ELSE {}) \cup (IF elapsed THEN {"timer"} ELSE {})

AfterSelectAlwaysReturns(branch) == "return"

AfterSelectRedeclares(branch) == IF branch = "done" THEN "return" ELSE "ExchangeDeclare"

\* case <-done: return;  case <-time.After(time.Second): continue
AfterSelect(branch) == IF branch = "done" THEN "return" ELSE "publish"

AfterListenerLogLoops == "recv"

\* The goroutine of SetupCloseHandler ends after its log line: no loop.
AfterListenerLog == "end"

\* Connection.Close(): releases the channels of the connection, then the
\* connection itself.
ConnClose(ch) == IF ch = "open" THEN <<"channel", "connection">> ELSE <<"connection">>

\* ------------------------------------------------------------------- Init
Init ==
    /\ continuous \in BOOLEAN
    /\ pc = "Dial"
    /\ conn = "none"
    /\ channel = "none"
    /\ handles = <<>>
    /\ done = FALSE
    /\ sigbuf = 0
    /\ lpc = "recv"
    /\ timer = 0
    /\ exitCode = OkStatus
    /\ now = 0
    /\ calls = <<>>
    /\ closes = <<>>
    /\ subAt = <<>>
    /\ sigAt = 0
    /\ waitAt = 0
    /\ decidedAt = 0
    /\ lag = FALSE

\* ------------------------------------------------------- main goroutine
\* One setup call and its error check.
SetupCall(step, ok) ==
    /\ pc = step
    /\ calls' = Append(calls, [op |-> step, ok |-> ok])
    /\ pc' = AfterSetup(step, ok)
    /\ exitCode' = IF pc' = "exited" THEN FatalStatus ELSE exitCode

Dial ==
    \E ok \in BOOLEAN :
        /\ SetupCall("Dial", ok)
        /\ conn' = IF ok THEN "open" ELSE conn
        /\ UNCHANGED <<continuous, channel, handles, done, sigbuf, lpc, timer,
                       now, closes, subAt, sigAt, waitAt, decidedAt, lag>>

Channel ==
    \E ok \in BOOLEAN :
        /\ SetupCall("Channel", ok)
        /\ channel' = IF ok THEN "open" ELSE channel
        /\ UNCHANGED <<continuous, conn, handles, done, sigbuf, lpc, timer,
                       now, closes, subAt, sigAt, waitAt, decidedAt, lag>>

ExchangeDeclare ==
    \E ok \in BOOLEAN :
        /\ SetupCall("ExchangeDeclare", ok)
        /\ UNCHANGED <<continuous, conn, channel, handles, done, sigbuf, lpc,
                       timer, now, closes, subAt, sigAt, waitAt, decidedAt, lag>>

Confirm ==
    \E ok \in BOOLEAN :
        /\ SetupCall("Confirm", ok)
        /\ UNCHANGED <<continuous, conn, channel, handles, done, sigbuf, lpc,
                       timer, now, closes, subAt, sigAt, waitAt, decidedAt, lag>>

\* channel.PublishWithDeferredConfirmWithContext and its error check.
Publish ==
    \E ok \in BOOLEAN :
        /\ pc = "publish"
        /\ calls' = Append(calls, [op |-> "Publish", ok |-> ok])
        /\ pc' = AfterPublish(ok)
        /\ exitCode' = IF pc' = "exited" THEN FatalStatus ELSE exitCode
        /\ IF ok
             THEN /\ handles' = Append(handles, "pending")
                  /\ subAt' = Append(subAt, now)
             ELSE UNCHANGED <<handles, subAt>>
        /\ UNCHANGED <<continuous, conn, channel, done, sigbuf, lpc, timer,
                       now, closes, sigAt, waitAt, decidedAt, lag>>

\* dConfirmation.Wait() returns and the delivery tag is logged.
Wait ==
    /\ pc = "wait"
    /\ WaitReturns(Last(handles))
    /\ pc' = AfterWait(Last(handles))
    /\ UNCHANGED <<continuous, conn, channel, handles, done, sigbuf, lpc,
                   timer, exitCode, now, calls, closes, subAt, sigAt, waitAt,
                   decidedAt, lag>>

\* The test of *continuous; entering the select starts the timer.
Decide ==
    /\ pc = "decide"
    /\ pc' = AfterConfirm(continuous)
    /\ IF pc' = "select"
         THEN /\ timer' = TimerDeadline(now)
              /\ waitAt' = now
         ELSE UNCHANGED <<timer, waitAt>>
    /\ UNCHANGED <<continuous, conn, channel, handles, done, sigbuf, lpc,
                   exitCode, now, calls, closes, subAt, sigAt, decidedAt, lag>>

\* The select takes one of the cases that can proceed.
Select ==
    /\ pc = "select"
    /\ \E branch \in SelectReady(done, now >= timer) :
           pc' = AfterSelect(branch)
    /\ decidedAt' = now
    /\ UNCHANGED <<continuous, conn, channel, handles, done, sigbuf, lpc,
                   timer, exitCode, now, calls, closes, subAt, sigAt, waitAt,
                   lag>>

\* publish returns: the deferred conn.Close() runs.
DeferredClose ==
    /\ pc = "return"
    /\ closes' = closes \o ConnClose(channel)
    /\ conn' = "closed"
    /\ channel' = IF channel = "open" THEN "closed" ELSE channel
    /\ pc' = "main"
    /\ UNCHANGED <<continuous, handles, done, sigbuf, lpc, timer, exitCode,
                   now, calls, subAt, sigAt, waitAt, decidedAt, lag>>

\* main returns: the process exits with status 0.
MainReturn ==
    /\ pc = "main"
    /\ pc' = "exited"
    /\ exitCode' = OkStatus
    /\ UNCHANGED <<continuous, conn, channel, handles, done, sigbuf, lpc,
                   timer, now, calls, closes, subAt, sigAt, waitAt, decidedAt,
                   lag>>

\* ------------------------------------------------------------ environment
\* The broker resolves a pending confirmation.
Resolve ==
    /\ Running
    /\ \E i \in Pending, r \in Outcomes :
           handles' = [handles EXCEPT ![i] = r]
    /\ UNCHANGED <<continuous, pc, conn, channel, done, sigbuf, lpc, timer,
                   exitCode, now, calls, closes, subAt, sigAt, waitAt,
                   decidedAt, lag>>

\* An interrupt or termination signal is delivered; signal.Notify does not
\* block, a signal that finds c full is dropped.
Signal ==
    /\ Running
    /\ sigbuf' = Min(sigbuf + 1, SigBufCap)
    /\ UNCHANGED <<continuous, pc, conn, channel, handles, done, lpc, timer,
                   exitCode, now, calls, closes, subAt, sigAt, waitAt,
                   decidedAt, lag>>

\* ------------------------------------------------------ listener goroutine
ListenerRecv ==
    /\ Running
    /\ lpc = "recv"
    /\ sigbuf > 0
    /\ sigbuf' = sigbuf - 1
    /\ lpc' = "close"
    /\ UNCHANGED <<continuous, pc, conn, channel, handles, done, timer,
                   exitCode, now, calls, closes, subAt, sigAt, waitAt,
                   decidedAt, lag>>

ListenerClose ==
    /\ Running
    /\ lpc = "close"
    /\ done' = TRUE
    /\ sigAt' = now
    /\ lpc' = "log"
    /\ UNCHANGED <<continuous, pc, conn, channel, handles, sigbuf, timer,
                   exitCode, now, calls, closes, subAt, waitAt, decidedAt, lag>>

ListenerLog ==
    /\ Running
    /\ lpc = "log"
    /\ lpc' = AfterListenerLog
    /\ UNCHANGED <<continuous, pc, conn, channel, handles, done, sigbuf,
                   timer, exitCode, now, calls, closes, subAt, sigAt, waitAt,
                   decidedAt, lag>>

\* ------------------------------------------------------------------- time
MainReady ==
    \/ pc \in {"Dial", "Channel", "ExchangeDeclare", "Confirm", "publish",
               "decide", "return", "main"}
    \/ pc = "wait" /\ WaitReturns(Last(handles))
    \/ pc = "select" /\ SelectReady(done, now >= timer) # {}

ListenerReady ==
    \/ lpc = "recv" /\ sigbuf > 0
    \/ lpc \in {"close", "log"}

StepReady == Running /\ (MainReady \/ ListenerReady \/ Pending # {})

Tick ==
    /\ now < MaxTime
    /\ now' = now + 1
    /\ lag' = (lag \/ StepReady)
    /\ UNCHANGED <<continuous, pc, conn, channel, handles, done, sigbuf, lpc,
                   timer, exitCode, calls, closes, subAt, sigAt, waitAt,
                   decidedAt>>

Next ==
    \/ Dial
    \/ Channel
    \/ ExchangeDeclare
    \/ Confirm
    \/ Publish
    \/ Wait
    \/ Decide
    \/ Select
    \/ DeferredClose
    \/ MainReturn
    \/ Resolve
    \/ Signal
    \/ ListenerRecv
    \/ ListenerClose
    \/ ListenerLog
    \/ Tick

Spec == Init /\ [][Next]_vars

\* A step of the main goroutine.
MainStep ==
    \/ Dial
    \/ Channel
    \/ ExchangeDeclare
    \/ Confirm
    \/ Publish
    \/ Wait
    \/ Decide
    \/ Select
    \/ DeferredClose
    \/ MainReturn

\* The select takes the case <-done.
SelectDone == Select /\ pc' = "return"

\* The main goroutine runs whenever it stays ready, the broker resolves every
\* pending confirmation, and a case of the select that is ready again and
\* again is eventually the one taken (the choice among ready cases is
\* uniformly random).  The listener and the clock are not constrained.
FairSpec ==
    /\ Spec
    /\ WF_vars(MainStep)
    /\ WF_vars(Resolve)
    /\ SF_vars(SelectDone)

\* ----------------------------------------------------------------- claims

\* C1 -- Single in-flight: at most one confirmation is unresolved, it is the
\* one of the current cycle and the loop is waiting for it; in particular
\* the loop is never about to submit while a confirmation is unresolved.
SingleInFlight ==
    /\ Cardinality(Pending) <= 1
    /\ \A i \in Pending : i = Len(handles) /\ pc = "wait"
    /\ pc = "publish" => Pending = {}

\* A second cycle is waiting for its confirmation, with the shutdown signal
\* already set.
SingleInFlightWitness ==
    /\ Len(handles) >= 2
    /\ pc = "wait"
    /\ Pending = {Len(handles)}
    /\ done

\* C2 -- Resource release ordering: once the process has terminated, a
\* connection that was opened has been closed exactly once, and a channel
\* that was opened has been closed exactly once, before the connection.
ReleaseOrdering ==
    pc = "exited" =>
        /\ conn # "none" =>
               Cardinality({i \in DOMAIN closes : closes[i] = "connection"}) = 1
        /\ channel # "none" => closes = <<"channel", "connection">>

\* C3 -- Release on fatal error: when the run ends in a fatal error after
\* the connection was opened, the connection has been closed.
ReleaseOnFatal == (Fatal /\ conn # "none") => conn = "closed"

\* C4 -- Tie-break as claimed: a select that decides while the shutdown
\* signal is set and the delay has elapsed always takes the shutdown branch.
TieBreak ==
    [][(pc = "select" /\ pc' # "select" /\ done /\ now >= timer)
           => pc' = "return"]_vars

\* C4, amended -- a select that decides while the shutdown signal is set and
\* the delay has not elapsed takes the shutdown branch; one that decides
\* while only the delay has elapsed starts the next cycle; with both ready
\* it takes either.
TieBreakAmended ==
    [][(pc = "select" /\ pc' # "select")
           => /\ (done /\ now < timer) => pc' = "return"
              /\ (~done /\ now >= timer) => pc' = "publish"
              /\ pc' \in {"return", "publish"}
              /\ done \/ now >= timer]_vars

\* The loop stopped on a shutdown signal that came before the delay elapsed.
TieBreakWitness ==
    /\ continuous
    /\ pc = "return"
    /\ done
    /\ decidedAt < timer
    /\ Len(subAt) >= 2

\* C5 -- Shutdown priority as claimed: once the signal is set during a cycle,
\* (a) no further publish is started unless the signal came after the delay
\* had elapsed, and (b) one delay unit after the signal the loop is over.
ShutdownPriority ==
    (continuous /\ done /\ ~Fatal /\ Len(subAt) >= 1 /\ sigAt >= subAt[1]) =>
        /\ pc = "publish" => sigAt >= timer
        /\ now > sigAt + Delay => LoopLeft

\* C5, amended -- another publish is started only by a select that decided
\* when the delay had fully elapsed, and the loop is left only by a select
\* that decided when the signal was set: a signal set before or during the
\* wait ends the loop without another publish whenever the select decides
\* before the delay has elapsed.
ShutdownPriorityAmended ==
    continuous =>
        /\ (pc = "publish" /\ Len(subAt) >= 1) => decidedAt >= waitAt + Delay
        /\ LoopLeft => (done /\ sigAt <= decidedAt /\ waitAt <= decidedAt)

\* The signal was set during the wait and the loop stopped before the delay
\* had elapsed.
ShutdownPriorityWitness ==
    /\ continuous
    /\ LoopLeft
    /\ done
    /\ waitAt < sigAt
    /\ decidedAt < waitAt + Delay

\* C6 -- Single-shot default: with continuous = FALSE at most one publish is
\* ever submitted; once it is submitted the run cannot end in a fatal error,
\* the loop is left only after its confirmation resolved (ack or nack), and
\* the process then exits with status zero after exactly one cycle.
SingleShot ==
    ~continuous =>
        /\ Cardinality(CallsOf("Publish")) <= 1
        /\ Len(handles) <= 1
        /\ Len(handles) = 1 => ~Fatal
        /\ LoopLeft => (Len(handles) = 1 /\ handles[1] \in Outcomes)
        /\ pc \notin {"select"}

\* A single-shot run that exited with status zero after a nack.
SingleShotWitness ==
    /\ ~continuous
    /\ pc = "exited"
    /\ exitCode = OkStatus
    /\ handles = <<"nack">>

\* C7 -- No cancellation of an in-flight wait: the loop leaves the wait only
\* for the Decision step and only when the confirmation is resolved, whether
\* or not the shutdown signal is set; Decision, the select and the exit from
\* the loop are reached only with every confirmation resolved.
NoCancellation ==
    /\ [](pc \in {"decide", "select", "return", "main"} => Pending = {})
    /\ [][pc = "wait" /\ pc' # "wait"
              => (Last(handles) # "pending" /\ pc' = "decide")]_vars

\* The shutdown signal was set some time ago and the loop is still waiting
\* for a confirmation that has not resolved.
NoCancellationWitness ==
    /\ pc = "wait"
    /\ Last(handles) = "pending"
    /\ done
    /\ now >= sigAt + Delay

\* C8 -- Fatal setup: a failed setup call is the last broker call of the
\* run; the process has exited with a non-zero status and no publish was
\* submitted.  Every call that was made followed successful calls only.
FatalSetup ==
    \A i \in DOMAIN calls :
        ~calls[i].ok =>
            /\ i = Len(calls)
            /\ Fatal
            /\ (calls[i].op # "Publish" =>
                    /\ handles = <<>>
                    /\ CallsOf("Publish") = {}
                    /\ \A j \in 1..i : calls[j].op = SetupSteps[j])

\* The exchange declaration failed.
FatalSetupWitness ==
    /\ Len(calls) = 3
    /\ calls[3] = [op |-> "ExchangeDeclare", ok |-> FALSE]
    /\ pc = "exited"

\* C9 -- Scenario B as claimed: continuous mode, no step ever delayed (setup
\* done at time 0, confirmations resolved at once), the shutdown signal set
\* 2.5 delay units after start: exactly 2 publish cycles were run when the
\* loop is left.
ScenarioSignalAt == (5 * Delay) \div 2

ScenarioBRun ==
    /\ continuous
    /\ ~lag
    /\ done
    /\ sigAt = ScenarioSignalAt
    /\ LoopLeft

ScenarioB == ScenarioBRun => Len(subAt) = 2

\* C9, amended -- in that scenario exactly 3 publish cycles were run, at
\* times 0, 1 and 2 delay units, every one confirmed, and the loop is left
\* at the instant of the signal.
ScenarioBAmended ==
    ScenarioBRun =>
        /\ subAt = <<0, Delay, 2 * Delay>>
        /\ Pending = {}
        /\ Len(handles) = 3
        /\ decidedAt = sigAt

\* The run of scenario B has exited.
ScenarioBWitness == ScenarioBRun /\ pc = "exited"

\* C10 -- Setup order: a publish is submitted only after Dial, Channel,
\* ExchangeDeclare and Confirm were called in that order and succeeded, and
\* no setup call is ever made twice.
SetupOrder ==
    /\ \A k \in 1..Len(SetupSteps) : Cardinality(CallsOf(SetupSteps[k])) <= 1
    /\ \A i \in CallsOf("Publish") :
           /\ i > Len(SetupSteps)
           /\ \A k \in 1..Len(SetupSteps) :
                  calls[k] = [op |-> SetupSteps[k], ok |-> TRUE]
    /\ pc \in {"publish", "wait", "decide", "select"} =>
           (conn = "open" /\ channel = "open")

\* A second publish cycle was submitted.
SetupOrderWitness ==
    /\ Cardinality(CallsOf("Publish")) >= 2
    /\ Len(subAt) >= 2

\* C11 -- Write-once shutdown signal: whatever signals are delivered, the
\* listener executes close(done) only while done is still open, done stays
\* closed once closed, and the listener, having closed it, only moves on to
\* its end and never receives again.
WriteOnceSignal ==
    /\ [](done <=> lpc \in {"log", "end"})
    /\ [][lpc = "close" /\ lpc' # "close" => ~done /\ done']_vars
    /\ [][done => done' /\ sigAt' = sigAt]_vars
    /\ [][(lpc = "log" \/ lpc = "end") => (lpc' = "log" \/ lpc' = "end")]_vars
    /\ [][lpc = "end" => lpc' = "end"]_vars

\* The listener has ended and further signals fill the buffer of c.
WriteOnceSignalWitness ==
    /\ done
    /\ lpc = "end"
    /\ sigbuf = SigBufCap
    /\ Running

\* C12 -- Nack is not an error: when the wait ends on a nack the loop goes to
\* the Decision step, exactly as on an ack, with no exit status set and no
\* broker call made; the Decision step depends on the mode only; a fatal
\* termination always follows a failed broker call, never a nack.
NackIsNotAnError ==
    /\ [][(pc = "wait" /\ pc' # "wait")
              => /\ pc' = "decide"
                 /\ UNCHANGED <<exitCode, calls, handles, subAt>>]_vars
    /\ [][(pc = "decide" /\ pc' # "decide")
              => /\ pc' = (IF continuous THEN "select" ELSE "return")
                 /\ UNCHANGED <<exitCode, calls, handles, subAt>>]_vars
    /\ [](Fatal => ~Last(calls).ok)
    /\ [](Cardinality(CallsOf("Publish")) <= Len(handles) + 1)

\* A continuous run went on after a nack and stopped, on shutdown, after a
\* second nack.
NackIsNotAnErrorWitness ==
    /\ continuous
    /\ handles = <<"nack", "nack">>
    /\ pc = "exited"
    /\ exitCode = OkStatus

\* C13 -- Fatal submission and exit status: a failed publish call, in any
\* cycle, is the last broker call of the run, the process has exited with a
\* non-zero status, no confirmation exists for that cycle and none is
\* pending; the exit status is zero exactly when every call succeeded and
\* the run ended by single-shot completion or, in continuous mode, with the
\* shutdown signal set, and non-zero exactly when the last call failed.
FatalSubmission ==
    /\ \A i \in CallsOf("Publish") :
           ~calls[i].ok =>
               /\ i = Len(calls)
               /\ Fatal
               /\ Pending = {}
               /\ Len(handles) = Cardinality(CallsOf("Publish")) - 1
    /\ pc = "exited" =>
           /\ exitCode \in {OkStatus, FatalStatus}
           /\ exitCode = FatalStatus <=> ~Last(calls).ok
           /\ exitCode = OkStatus <=>
                  /\ \A i \in DOMAIN calls : calls[i].ok
                  /\ Pending = {}
                  /\ IF continuous THEN done ELSE Len(handles) = 1

\* The submission of the second cycle failed.
FatalSubmissionWitness ==
    /\ Fatal
    /\ Len(handles) = 1
    /\ Cardinality(CallsOf("Publish")) = 2
    /\ ~Last(calls).ok

\* C14 -- Eventual stop: in continuous mode, once the shutdown signal is set,
\* the process eventually terminates, given that confirmations resolve and
\* the loop is scheduled fairly.
EventualStop == (continuous /\ done) ~> (pc = "exited")

\* A continuous run in which the signal was set during the second cycle has
\* returned through the shutdown branch and exited.
EventualStopWitness ==
    /\ continuous
    /\ done
    /\ pc = "exited"
    /\ exitCode = OkStatus
    /\ Len(subAt) >= 2
    /\ sigAt >= subAt[2]

\* C15 -- Inter-publish delay: the timer of the select is started after the
\* confirmation of the cycle has resolved and runs for one full delay; the
\* loop is about to submit again only when that delay has elapsed, so two
\* consecutive submissions are at least one delay apart.
InterPublishDelay ==
    /\ [](\A i \in 1..(Len(subAt) - 1) : subAt[i + 1] >= subAt[i] + Delay)
    /\ []((pc = "publish" /\ Len(subAt) >= 1) =>
              (now >= waitAt + Delay /\ waitAt >= Last(subAt)))
    /\ [][(pc = "decide" /\ pc' = "select")
              => (Pending = {} /\ waitAt' = now /\ timer' = now + Delay)]_vars

\* Two consecutive submissions exactly one delay apart.
InterPublishDelayWitness ==
    /\ continuous
    /\ Len(subAt) >= 2
    /\ subAt[2] = subAt[1] + Delay

\* C16 -- Single-shot mode ignores the shutdown signal: with continuous =
\* FALSE the loop never enters the select; whatever the signal state, the
\* wait is left only with the one confirmation resolved, a run whose calls
\* all succeed submits exactly once, and the exit status is zero exactly
\* when every call succeeded; the steps of the listener and the delivery of
\* a signal leave the main goroutine where it is.
SingleShotIgnoresSignal ==
    /\ [](~continuous =>
              /\ pc # "select"
              /\ (pc \in {"decide", "return", "main"} \/ (pc = "exited" /\ exitCode = OkStatus))
                     => (handles = <<"ack">> \/ handles = <<"nack">>)
              /\ (Len(calls) > Len(SetupSteps) /\ \A i \in DOMAIN calls : calls[i].ok)
                     => (Len(subAt) = 1 /\ Cardinality(CallsOf("Publish")) = 1)
              /\ pc = "exited" =>
                     (exitCode = OkStatus <=> \A i \in DOMAIN calls : calls[i].ok))
    /\ [][(~continuous /\ (done' # done \/ lpc' # lpc \/ sigbuf' # sigbuf))
              => UNCHANGED <<pc, handles, calls, exitCode, subAt, closes>>]_vars

\* In single-shot mode the signal was set one delay ago and the loop still
\* waits for its unresolved confirmation.
SingleShotIgnoresSignalWitness ==
    /\ ~continuous
    /\ done
    /\ pc = "wait"
    /\ handles = <<"pending">>
    /\ now >= sigAt + Delay

\* C17 -- Continuous mode ends only by shutdown or fatal error: with
\* continuous = TRUE the loop is left by return only with the shutdown
\* signal set, and a process that exited without the signal exited in a
\* fatal error, after a failed call.
ContinuousEndsOnlyByShutdown ==
    /\ [](continuous =>
              /\ (pc \in {"return", "main"}) => done
              /\ (pc = "exited" /\ exitCode = OkStatus) => done
              /\ (pc = "exited" /\ ~done) => (Fatal /\ ~Last(calls).ok))
    /\ [][(continuous /\ pc = "select" /\ pc' # "select" /\ ~done)
              => pc' = "publish"]_vars

\* A continuous run that ended on shutdown after three cycles.
ContinuousEndsOnlyByShutdownWitness ==
    /\ continuous
    /\ pc = "exited"
    /\ exitCode = OkStatus
    /\ done
    /\ Len(subAt) >= 3

\* C18 -- First publish is unconditional: with the shutdown signal already
\* set, setup steps and the first publish go on as without it (next step, or
\* fatal exit on error); the select is entered and the loop is left only
\* after a first message was submitted and its confirmation resolved, and a
\* run whose setup and submission succeed has submitted a message.
FirstPublishUnconditional ==
    /\ []((pc \in {"decide", "select", "return", "main"} \/ (pc = "exited" /\ exitCode = OkStatus))
              => (Len(handles) >= 1 /\ handles[1] \in Outcomes))
    /\ []((LoopLeft /\ continuous) => (done /\ decidedAt >= subAt[1]))
    /\ []((Len(calls) > Len(SetupSteps) /\ \A i \in DOMAIN calls : calls[i].ok)
              => Len(subAt) >= 1)
    /\ [][(done /\ pc # pc' /\ (pc = "Dial" \/ pc = "Channel" \/ pc = "ExchangeDeclare" \/ pc = "Confirm"))
              => \/ pc' = NextStep(pc) /\ Last(calls').ok
                 \/ pc' = "exited" /\ exitCode' = FatalStatus /\ ~Last(calls').ok]_vars
    /\ [][(done /\ pc = "publish" /\ pc' # "publish")
              => \/ pc' = "wait" /\ Len(handles') = Len(handles) + 1
                 \/ pc' = "exited" /\ exitCode' = FatalStatus /\ ~Last(calls').ok]_vars

\* The signal was set before the first submission; the loop still published,
\* waited for the confirmation and only then stopped.
FirstPublishUnconditionalWitness ==
    /\ continuous
    /\ done
    /\ Len(subAt) = 1
    /\ sigAt < subAt[1]
    /\ pc = "exited"
    /\ exitCode = OkStatus

====
